---- MODULE Spec2Model ----
(***************************************************************************)
(* Model of three numerical routines of the unravel toolkit:               *)
(*   overlap_volumes        (src/src/unravel/viz.py, lines 40-95)          *)
(*   compute_alpha_surface  (src/src/unravel/viz.py, lines 160-216)        *)
(*   tensor_to_DTI          (src/TIME/utils.py,      lines 99-167)         *)
(* Floating-point numbers are modelled as exact rationals <<n, d>> in      *)
(* lowest terms with d > 0; <<0,0>> is NaN and <<1,0>>, <<-1,0>> are the   *)
(* infinities, so that 0/0 and x/0 behave as in IEEE arithmetic.           *)
(***************************************************************************)
EXTENDS Integers, Sequences, FiniteSets, TLC

-----------------------------------------------------------------------------
(* Bounds of the model *)

\* number of voxels of the common grid of the volumes given to overlap_volumes
NVox == 2
\* largest voxel value of an input volume
MaxVal == 2
\* longest vol_list
MaxLayers == 2
\* largest entry of an input tensor field
MaxEntry == 1
\* greatest number of nonzero entries of an input tensor field
MaxNonzero == 2
\* samples of the angle u and of the angle v of the angular grid
NU == 5
NV == 3
\* longest vList
MaxFixels == 2

-----------------------------------------------------------------------------
(* Exact arithmetic standing for numpy's float arithmetic *)

Abs(n) == IF n < 0 THEN -n ELSE n

Sign(n) == IF n < 0 THEN -1 ELSE IF n = 0 THEN 0 ELSE 1

RECURSIVE GCD(_, _)
GCD(a, b) == IF b = 0 THEN a ELSE GCD(b, a % b)

NaN == <<0, 0>>

Zero == <<0, 1>>

IsNaN(q) == q[1] = 0 /\ q[2] = 0

\* q != 0 as numpy evaluates it: NaN != 0 and inf != 0 are both True
NotZero(q) == q[1] # 0 \/ q[2] = 0

\* the float a / b of two integers: 0/0 is NaN, x/0 is a signed infinity
Div(a, b) ==
    IF b = 0 THEN <<Sign(a), 0>>
    ELSE LET g == GCD(Abs(a), Abs(b))
         IN  <<(Sign(b) * a) \div g, Abs(b) \div g>>

\* the float from an integer
Num(a) == <<a, 1>>

\* p + q on floats
Add(p, q) ==
    IF IsNaN(p) \/ IsNaN(q) THEN NaN
    ELSE IF p[2] = 0 /\ q[2] = 0 THEN (IF p = q THEN p ELSE NaN)
    ELSE IF p[2] = 0 THEN p
    ELSE IF q[2] = 0 THEN q
    ELSE Div(p[1] * q[2] + q[1] * p[2], p[2] * q[2])

\* p <= q on finite floats
Leq(p, q) == p[1] * q[2] <= q[1] * p[2]

SetMax(S) == CHOOSE m \in S : \A s \in S : s <= m

SetMin(S) == CHOOSE m \in S : \A s \in S : m <= s

-----------------------------------------------------------------------------
(* State *)

\* overlap_volumes
VARIABLES
    vol_list,    \* the caller's list object, [foreground, ..., background]
    vol_list0,   \* the list as it was when the call was made
    rgb,         \* the rgb argument
    back,        \* the destination volume, voxel -> <<r, g, b>>
    popped,      \* indices of vol_list0 in the order the loop took them
    ov_result,   \* the returned volume
    ov_pc        \* "start", "loop", "done" ("idle": not called)

\* tensor_to_DTI
VARIABLES
    errstate,    \* numpy's process-wide divide/invalid setting (np.seterr)
    t,           \* the argument: an array [shape, data]
    mt,          \* the field of 3x3 matrices, after line 138
    val,         \* the eigenvalues, voxel -> <<l0, l1, l2>>
    FA, AD, RD, MD,   \* the four maps, arrays [shape, data]
    dti_err,     \* the exception that ended the call, or "none"
    dti_pc       \* "start", "build", "eig", "sort", "maps", "nan", "ret",
                 \* "done", "raised" ("idle": not called)

\* compute_alpha_surface
VARIABLES
    vList,       \* the vList argument
    method_arg,  \* the method argument, or "<omitted>"
    method,      \* the parameter method of line 160
    nList,       \* line 190
    x, y, z,     \* the mesh coordinates, grid index -> value
    coef,        \* the coefficients, grid index -> value
    al_next,     \* how many grid indices the loop of line 201 has done
    calls,       \* the kernel calls made so far, in order
    al_pc        \* "start", "loop", "done" ("idle": not called)

ov_vars == <<vol_list, vol_list0, rgb, back, popped, ov_result, ov_pc>>

dti_vars == <<errstate, t, mt, val, FA, AD, RD, MD, dti_err, dti_pc>>

al_vars == <<vList, method_arg, method, nList, x, y, z, coef, al_next, calls, al_pc>>

vars == <<ov_vars, dti_vars, al_vars>>

-----------------------------------------------------------------------------
(* overlap_volumes: inputs *)

\* All volumes of one call share one spatial grid (the resampling ratio of
\* line 81 is then 1 on every axis); its voxels are numbered 1..NVox.
Voxels == 1 .. NVox

Channels == 1 .. 3

\* A volume: chan is the size of the trailing axis tested on line 76
\* (3 for an (x,y,z,3) volume, 1 standing for a plain (x,y,z) volume);
\* data gives, for each voxel, the tuple of its chan values.
GrayValues == {0, 1, MaxVal}

GrayVolumes == {[chan |-> 1, data |-> d] : d \in [Voxels -> {<<v>> : v \in GrayValues}]}

Palette == {<<0, 0, 0>>, <<1, 0, MaxVal>>}

RGBVolumes == {[chan |-> 3, data |-> d] : d \in [Voxels -> Palette]}

Volumes == GrayVolumes \cup RGBVolumes

VolLists == UNION {[1 .. n -> Volumes] : n \in 1 .. MaxLayers}

-----------------------------------------------------------------------------
(* overlap_volumes: the operations of the loop body *)

\* np.repeat(array[..., np.newaxis], 3, axis=3)
grayscale_to_rgb(array) ==
    [vox \in Voxels |-> <<array[vox][1], array[vox][1], array[vox][1]>>]

\* line 76-77: a layer whose trailing axis is not 3 is repeated to 3 channels
ToRGB(layer) ==
    IF layer.chan # 3 THEN grayscale_to_rgb(layer.data) ELSE layer.data

\* scipy's zoom with ratio max_size/size = 1 on every axis and 1 on the
\* channel axis: the array itself
Zoom(data) == data

\* np.max(layer): the maximum over every voxel and channel
LayerMax(data) == SetMax({data[vox][c] : vox \in Voxels, c \in Channels})

\* layer /= np.max(layer)
Normalize(data) ==
    LET m == LayerMax(data)
    IN  [vox \in Voxels |-> [c \in Channels |-> Div(data[vox][c], m)]]

\* np.sum(layer, axis=3) at one voxel
ChannelSum(px) == Add(Add(px[1], px[2]), px[3])

\* faulty variant: the layer is copied over every voxel, transparent or not
Composite_Opaque(dst, layer) == [vox \in Voxels |-> layer[vox]]

\* back[np.sum(layer, axis=3) != 0] = layer[np.sum(layer, axis=3) != 0]
Composite(dst, layer) ==
    [vox \in Voxels |->
        IF NotZero(ChannelSum(layer[vox])) THEN layer[vox] ELSE dst[vox]]

\* faulty variant: pop(0): the first element is taken instead of the last
ListPop_Front(l) == [item |-> l[1], rest |-> Tail(l), index |-> 1]

\* vol_list.pop(): removes and returns the last element
ListPop(l) ==
    [item |-> l[Len(l)], rest |-> SubSeq(l, 1, Len(l) - 1), index |-> Len(l)]

\* np.zeros(tuple(max_size)+(3,))
ZeroVolume == [vox \in Voxels |-> [c \in Channels |-> Zero]]

-----------------------------------------------------------------------------
(* overlap_volumes: actions *)

OvInit ==
    /\ vol_list \in VolLists
    /\ vol_list0 = vol_list
    /\ rgb \in BOOLEAN
    /\ back = <<>>
    /\ popped = <<>>
    /\ ov_result = <<>>
    /\ ov_pc = "start"

\* lines 63-71: the common shape, and the destination filled with zeros
overlap_begin ==
    /\ ov_pc = "start"
    /\ back' = ZeroVolume
    /\ ov_pc' = "loop"
    /\ UNCHANGED <<vol_list, vol_list0, rgb, popped, ov_result>>
    /\ UNCHANGED <<dti_vars, al_vars>>

\* lines 73-87: one iteration of the while loop
overlap_layer ==
    /\ ov_pc = "loop"
    /\ Len(vol_list) > 0
    /\ LET p == ListPop(vol_list)
           layer == Normalize(Zoom(ToRGB(p.item)))
       IN  /\ vol_list' = p.rest
           /\ popped' = Append(popped, p.index)
           /\ back' = Composite(back, layer)
    /\ UNCHANGED <<vol_list0, rgb, ov_result, ov_pc>>
    /\ UNCHANGED <<dti_vars, al_vars>>

\* lines 89-95: the loop is over, the volume or its first channel is returned
overlap_return ==
    /\ ov_pc = "loop"
    /\ ~(Len(vol_list) > 0)
    /\ ov_result' = IF rgb THEN back ELSE [vox \in Voxels |-> back[vox][1]]
    /\ ov_pc' = "done"
    /\ UNCHANGED <<vol_list, vol_list0, rgb, back, popped>>
    /\ UNCHANGED <<dti_vars, al_vars>>

OvNext == overlap_begin \/ overlap_layer \/ overlap_return

OvIdle ==
    /\ vol_list = <<>>
    /\ vol_list0 = <<>>
    /\ rgb = TRUE
    /\ back = <<>>
    /\ popped = <<>>
    /\ ov_result = <<>>
    /\ ov_pc = "idle"

-----------------------------------------------------------------------------
(* numpy arrays: a shape and a function from index tuples (0-based) *)

RECURSIVE Indices(_)
Indices(shape) ==
    IF shape = <<>> THEN {<<>>}
    ELSE {<<i>> \o r : i \in 0 .. shape[1] - 1, r \in Indices(Tail(shape))}

Rank(a) == Len(a.shape)

\* a[..., np.newaxis]
NewAxis(a) ==
    LET sh == Append(a.shape, 1)
    IN  [shape |-> sh,
         data  |-> [idx \in Indices(sh) |-> a.data[SubSeq(idx, 1, Rank(a))]]]

\* np.transpose(a, axes): axis i of the result is axis axes[i] of a
Transpose(a, axes) ==
    LET n  == Rank(a)
        sh == [i \in 1 .. n |-> a.shape[axes[i] + 1]]
        At(j) == CHOOSE i \in 1 .. n : axes[i] = j - 1
    IN  [shape |-> sh,
         data  |-> [idx \in Indices(sh) |-> a.data[[j \in 1 .. n |-> idx[At(j)]]]]]

\* a[:, :, :, 0, k] raises IndexError unless a has five axes or more, the
\* fourth not empty and the fifth longer than k
CanIndex5(a, k) == Rank(a) >= 5 /\ a.shape[4] > 0 /\ a.shape[5] > k

\* the element of a[:, :, :, 0, k] at idx
Index5At(a, k, idx) ==
    a.data[SubSeq(idx, 1, 3) \o <<0, k>> \o SubSeq(idx, 4, Len(idx))]

\* np.array([[a[:,:,:,0,l00], ...], ...]) for a 3x3 layout of positions
Stack33(a, layout) ==
    LET sub == SubSeq(a.shape, 1, 3) \o SubSeq(a.shape, 6, Rank(a))
        sh  == <<3, 3>> \o sub
    IN  [shape |-> sh,
         data  |-> [idx \in Indices(sh) |->
                      Index5At(a, layout[idx[1] + 1][idx[2] + 1], SubSeq(idx, 3, Len(idx)))]]

-----------------------------------------------------------------------------
(* tensor_to_DTI: the steps *)

\* faulty variant: the rank-5 branch reading the components in the rank-4 order
LayoutRank5_AsRank4 == <<<<0, 1, 2>>, <<1, 3, 4>>, <<2, 4, 5>>>>

\* lines 128-130: positions of the components in the rank-4 branch
LayoutRank4 == <<<<0, 1, 2>>, <<1, 3, 4>>, <<2, 4, 5>>>>

\* lines 134-136: positions of the components in the other branch
LayoutRank5 == <<<<0, 1, 3>>, <<1, 2, 4>>, <<3, 4, 5>>>>

\* lines 125-126: a new trailing axis, then axis 0 moved to the end
MoveFirstAxisLast(a) == Transpose(NewAxis(a), <<1, 2, 3, 4, 0>>)

\* lines 124-136: the array that is indexed, and the layout used on it
Branch(a) ==
    IF Rank(a) = 4
    THEN [arr |-> MoveFirstAxisLast(a), layout |-> LayoutRank4]
    ELSE [arr |-> a, layout |-> LayoutRank5]

\* the exception lines 124-138 raise on the array, or "none"
BuildError(a) ==
    LET b == Branch(a)
    IN  IF \E k \in 0 .. 5 : ~CanIndex5(b.arr, k) THEN "IndexError"
        ELSE IF Rank(Stack33(b.arr, b.layout)) # 5 THEN "ValueError"
        ELSE "none"

\* lines 124-138: the field of matrices, of shape (.., .., .., 3, 3)
BuildMt(a) ==
    LET b == Branch(a)
    IN  Transpose(Stack33(b.arr, b.layout), <<2, 3, 4, 0, 1>>)

\* the voxels of a field of matrices
VoxelsOf(m) == Indices(SubSeq(m.shape, 1, 3))

\* the 3x3 matrix of one voxel
MatrixAt(m, vox) == [r \in 1 .. 3 |-> [c \in 1 .. 3 |-> m.data[vox \o <<r - 1, c - 1>>]]]

\* bound on the eigenvalues of a matrix with entries in 0..MaxEntry
EigRange == (0 - 3 * MaxEntry) .. (3 * MaxEntry)

Trace(M) == M[1][1] + M[2][2] + M[3][3]

Minors(M) ==
    (M[1][1] * M[2][2] - M[1][2] * M[2][1]) +
    (M[1][1] * M[3][3] - M[1][3] * M[3][1]) +
    (M[2][2] * M[3][3] - M[2][3] * M[3][2])

Det(M) ==
    M[1][1] * (M[2][2] * M[3][3] - M[2][3] * M[3][2]) -
    M[1][2] * (M[2][1] * M[3][3] - M[2][3] * M[3][1]) +
    M[1][3] * (M[2][1] * M[3][2] - M[2][2] * M[3][1])

\* np.linalg.eig on one matrix: the roots of its characteristic polynomial,
\* in any order the solver may give them
Eig(M) ==
    LET tr == Trace(M)
        mi == Minors(M)
        de == Det(M)
    IN  {l \in {<<a, b, tr - a - b>> : a \in EigRange, b \in EigRange} :
            /\ l[3] \in EigRange
            /\ l[1] * l[2] + l[1] * l[3] + l[2] * l[3] = mi
            /\ l[1] * l[2] * l[3] = de}

\* every way of picking, for each d of D, one element of S[d]
RECURSIVE Choices(_, _)
Choices(S, D) ==
    IF D = {} THEN {<<>>}
    ELSE LET d == CHOOSE d0 \in D : TRUE
         IN  {(d :> e) @@ f : e \in S[d], f \in Choices(S, D \ {d})}

\* np.sort of three values
SortAsc(v) ==
    LET lo == SetMin({v[1], v[2], v[3]})
        hi == SetMax({v[1], v[2], v[3]})
    IN  <<lo, v[1] + v[2] + v[3] - lo - hi, hi>>

Neg(v) == <<0 - v[1], 0 - v[2], 0 - v[3]>>

\* faulty variant: np.sort(val): ascending, the two negations forgotten
SortEigenvalues_Ascending(v) == SortAsc(v)

\* line 142: -np.sort(-val, axis=-1)
SortEigenvalues(v) == Neg(SortAsc(Neg(v)))

\* np.sqrt of a float n/d >= 0 or NaN, kept as the surd <<n, d, 2>>:
\* it is 0 exactly when n/d is 0 and NaN exactly when n/d is NaN
Sqrt(q) == <<q[1], q[2], 2>>

Sq(n) == n * n

\* lines 144-149
FAof(l) ==
    Sqrt(Div(Sq(l[1] - l[2]) + Sq(l[2] - l[3]) + Sq(l[3] - l[1]),
             2 * (Sq(l[1]) + Sq(l[2]) + Sq(l[3]))))

\* line 151
MDof(l) == Div(l[1] + l[2] + l[3], 3)

\* line 153
ADof(l) == Num(l[1])

\* line 155
RDof(l) == Div(l[2] + l[3], 2)

\* faulty variant: the NaN are left in the map
NanToZero_Skipped(m) == m

\* line 158: m[np.isnan(m)] = 0
NanToZero(m) ==
    [shape |-> m.shape,
     data  |-> [vox \in DOMAIN m.data |->
                  IF IsNaN(m.data[vox])
                  THEN (IF Len(m.data[vox]) = 3 THEN Sqrt(Zero) ELSE Zero)
                  ELSE m.data[vox]]]

\* lines 160-163: .real.astype('float64') of a real map
RealPart(m) == m

-----------------------------------------------------------------------------
(* tensor_to_DTI: inputs *)

\* shapes of the fields given to the call: the two documented ones with one
\* and two voxels, and wrong ranks and wrong trailing axes
DTIShapes ==
    {<<1, 1, 1, 1, 6>>, <<2, 1, 1, 1, 6>>,
     <<6, 1, 1, 1>>, <<6, 1, 1, 2>>, <<1, 1, 1, 6>>,
     <<1, 1, 1, 2, 6>>, <<1, 1, 1, 1, 7>>, <<1, 1, 1, 1, 5>>,
     <<1, 1, 1>>, <<1, 1, 1, 1, 6, 1>>}

\* the fields of a shape with at most MaxNonzero entries that are not 0
FieldsOf(shape) ==
    LET I == Indices(shape)
    IN  {[shape |-> shape,
          data  |-> [idx \in I |-> IF idx \in DOMAIN v THEN v[idx] ELSE 0]] :
            v \in UNION {[nz -> 1 .. MaxEntry] :
                           nz \in {s \in SUBSET I : Cardinality(s) <= MaxNonzero}}}

\* the eigenvalues of every matrix the call builds from the field are integers
\* (the fields the exact arithmetic of the model can follow)
IntegerSpectrum(a) ==
    BuildError(a) = "none" =>
        LET m == BuildMt(a)
        IN  \A vox \in VoxelsOf(m) : Eig(MatrixAt(m, vox)) # {}

NoArray == [shape |-> <<>>, data |-> <<>>]

-----------------------------------------------------------------------------
(* tensor_to_DTI: actions *)

DtiInit ==
    /\ errstate = "warn"
    /\ \E sh \in DTIShapes : t \in {a \in FieldsOf(sh) : IntegerSpectrum(a)}
    /\ mt = NoArray
    /\ val = NoArray
    /\ FA = NoArray /\ AD = NoArray /\ RD = NoArray /\ MD = NoArray
    /\ dti_err = "none"
    /\ dti_pc = "start"

DtiIdle ==
    /\ errstate = "warn"
    /\ t = NoArray
    /\ mt = NoArray
    /\ val = NoArray
    /\ FA = NoArray /\ AD = NoArray /\ RD = NoArray /\ MD = NoArray
    /\ dti_err = "none"
    /\ dti_pc = "idle"

\* line 122: np.seterr(divide='ignore', invalid='ignore')
dti_seterr ==
    /\ dti_pc = "start"
    /\ errstate' = "ignore"
    /\ dti_pc' = "build"
    /\ UNCHANGED <<t, mt, val, FA, AD, RD, MD, dti_err>>
    /\ UNCHANGED <<ov_vars, al_vars>>

\* lines 124-138: the matrices are built
dti_build ==
    /\ dti_pc = "build"
    /\ BuildError(t) = "none"
    /\ mt' = BuildMt(t)
    /\ dti_pc' = "eig"
    /\ UNCHANGED <<errstate, t, val, FA, AD, RD, MD, dti_err>>
    /\ UNCHANGED <<ov_vars, al_vars>>

\* lines 124-138: an index or the transposition raises; the exception leaves
\* the function, and line 165 is not run
dti_build_raises ==
    /\ dti_pc = "build"
    /\ BuildError(t) # "none"
    /\ dti_err' = BuildError(t)
    /\ dti_pc' = "raised"
    /\ UNCHANGED <<errstate, t, mt, val, FA, AD, RD, MD>>
    /\ UNCHANGED <<ov_vars, al_vars>>

\* line 139: val, vec = np.linalg.eig(mt)
dti_eig ==
    /\ dti_pc = "eig"
    /\ \E v \in Choices([vox \in VoxelsOf(mt) |-> Eig(MatrixAt(mt, vox))], VoxelsOf(mt)) :
          val' = [shape |-> SubSeq(mt.shape, 1, 3), data |-> v]
    /\ dti_pc' = "sort"
    /\ UNCHANGED <<errstate, t, mt, FA, AD, RD, MD, dti_err>>
    /\ UNCHANGED <<ov_vars, al_vars>>

\* line 142
dti_sort ==
    /\ dti_pc = "sort"
    /\ val' = [val EXCEPT !.data = [vox \in DOMAIN val.data |-> SortEigenvalues(val.data[vox])]]
    /\ dti_pc' = "maps"
    /\ UNCHANGED <<errstate, t, mt, FA, AD, RD, MD, dti_err>>
    /\ UNCHANGED <<ov_vars, al_vars>>

\* lines 144-155
dti_maps ==
    /\ dti_pc = "maps"
    /\ FA' = [shape |-> val.shape, data |-> [vox \in DOMAIN val.data |-> FAof(val.data[vox])]]
    /\ MD' = [shape |-> val.shape, data |-> [vox \in DOMAIN val.data |-> MDof(val.data[vox])]]
    /\ AD' = [shape |-> val.shape, data |-> [vox \in DOMAIN val.data |-> ADof(val.data[vox])]]
    /\ RD' = [shape |-> val.shape, data |-> [vox \in DOMAIN val.data |-> RDof(val.data[vox])]]
    /\ dti_pc' = "nan"
    /\ UNCHANGED <<errstate, t, mt, val, dti_err>>
    /\ UNCHANGED <<ov_vars, al_vars>>

\* lines 157-158
dti_nan_to_zero ==
    /\ dti_pc = "nan"
    /\ FA' = NanToZero(FA)
    /\ MD' = NanToZero(MD)
    /\ RD' = NanToZero(RD)
    /\ AD' = NanToZero(AD)
    /\ dti_pc' = "ret"
    /\ UNCHANGED <<errstate, t, mt, val, dti_err>>
    /\ UNCHANGED <<ov_vars, al_vars>>

\* lines 160-167: the real parts, the warnings set back to 'warn', the return
dti_return ==
    /\ dti_pc = "ret"
    /\ FA' = RealPart(FA)
    /\ AD' = RealPart(AD)
    /\ RD' = RealPart(RD)
    /\ MD' = RealPart(MD)
    /\ errstate' = "warn"
    /\ dti_pc' = "done"
    /\ UNCHANGED <<t, mt, val, dti_err>>
    /\ UNCHANGED <<ov_vars, al_vars>>

DtiNext ==
    \/ dti_seterr
    \/ dti_build
    \/ dti_build_raises
    \/ dti_eig
    \/ dti_sort
    \/ dti_maps
    \/ dti_nan_to_zero
    \/ dti_return

-----------------------------------------------------------------------------
(* compute_alpha_surface: the grid and the kernels *)

\* cos and sin of i quarter turns
CosQ(i) == <<1, 0, -1, 0>>[(i % 4) + 1]

SinQ(i) == <<0, 1, 0, -1>>[(i % 4) + 1]

\* The angular grid, sampled every quarter turn so that the coordinates are
\* integers: with NU = 5 and NV = 3 the angles are np.linspace(0, 2*pi, 5)
\* and np.linspace(0, pi, 3) (lines 192-193 take 200 samples of each).
GridIndices == (0 .. NU - 1) \X (0 .. NV - 1)

\* line 195: np.outer(np.cos(u), np.sin(v))
X0 == [g \in GridIndices |-> CosQ(g[1]) * SinQ(g[2])]

\* line 196: np.outer(np.sin(u), np.sin(v))
Y0 == [g \in GridIndices |-> SinQ(g[1]) * SinQ(g[2])]

\* line 197: np.outer(np.ones(np.size(u)), np.cos(v))
Z0 == [g \in GridIndices |-> 1 * CosQ(g[2])]

\* np.ndindex(x.shape): the k-th index (k from 0), last axis fastest
NdIndex(k) == <<k \div NV, k % NV>>

Dot(a, b) == a[1] * b[1] + a[2] * b[2] + a[3] * b[3]

\* The three kernels of unravel.core are called as
\* kernel(direction, vList, nList) and return a tuple whose first value is
\* the coefficient; they are deterministic and free of side effects. Their
\* bodies are outside the files modelled: each is given here a distinct
\* integer response.
angular_weighting(vs, vL, nL) ==
    <<2 * Abs(Dot(vs, vL[1])) + nL[1], Len(vL)>>

relative_angular_weighting(vs, vL, nL) ==
    <<Abs(Dot(vs, vL[1])) + 3 * (Len(vL) - 1) + nL[1], Len(vL)>>

closest_fixel_only(vs, vL, nL) ==
    <<(IF \A k \in 1 .. Len(vL) : Abs(Dot(vs, vL[k])) <= Abs(Dot(vs, vL[1]))
       THEN 7 ELSE 5) + nL[1], Len(vL)>>

Kernel(name, vs, vL, nL) ==
    IF name = "relative_angular_weighting" THEN relative_angular_weighting(vs, vL, nL)
    ELSE IF name = "closest_fixel_only" THEN closest_fixel_only(vs, vL, nL)
    ELSE angular_weighting(vs, vL, nL)

\* faulty variant: 'vol' and 'ang' matched by name, 'vol' taken for a relative weighting
Dispatch_VolMatched(m) ==
    IF m = "raw" \/ m = "vol" THEN "relative_angular_weighting"
    ELSE IF m = "cfo" THEN "closest_fixel_only"
    ELSE "angular_weighting"

\* lines 203-209: the kernel chosen for a method name
Dispatch(m) ==
    IF m = "raw" THEN "relative_angular_weighting"
    ELSE IF m = "cfo" THEN "closest_fixel_only"
    ELSE "angular_weighting"

\* faulty variant: the coordinate multiplied by a instead of a + 1
Scale_NoOffset(c, a) == c * a

\* lines 211-213: x[xyz] *= (a+1)
Scale(c, a) == c * (a + 1)

\* line 190: [0]*len(vList)
ZeroList(vL) == [k \in 1 .. Len(vL) |-> 0]

-----------------------------------------------------------------------------
(* compute_alpha_surface: inputs and actions *)

Directions == {<<1, 0, 0>>, <<0, 0, 1>>, <<1, 1, 0>>}

VLists == UNION {[1 .. n -> Directions] : n \in 1 .. MaxFixels}

\* method names: the four documented ones and one that is not
MethodNames == {"raw", "cfo", "ang", "vol", "xyz"}

AlInit ==
    /\ vList \in VLists
    /\ method_arg \in MethodNames \cup {"<omitted>"}
    /\ method = (IF method_arg = "<omitted>" THEN "raw" ELSE method_arg)
    /\ nList = <<>>
    /\ x = <<>> /\ y = <<>> /\ z = <<>> /\ coef = <<>>
    /\ al_next = 0
    /\ calls = <<>>
    /\ al_pc = "start"

AlIdle ==
    /\ vList = <<>>
    /\ method_arg = "<omitted>"
    /\ method = "raw"
    /\ nList = <<>>
    /\ x = <<>> /\ y = <<>> /\ z = <<>> /\ coef = <<>>
    /\ al_next = 0
    /\ calls = <<>>
    /\ al_pc = "idle"

\* lines 190-199: nList, the grid and the copy that receives the coefficients
alpha_begin ==
    /\ al_pc = "start"
    /\ nList' = ZeroList(vList)
    /\ x' = X0 /\ y' = Y0 /\ z' = Z0
    /\ coef' = X0
    /\ al_pc' = "loop"
    /\ UNCHANGED <<vList, method_arg, method, al_next, calls>>
    /\ UNCHANGED <<ov_vars, dti_vars>>

\* lines 201-214: one grid index
alpha_point ==
    /\ al_pc = "loop"
    /\ al_next < NU * NV
    /\ LET xyz == NdIndex(al_next)
           vs  == <<x[xyz], y[xyz], z[xyz]>>
           k   == Dispatch(method)
           a   == Kernel(k, vs, vList, nList)[1]
       IN  /\ x' = [x EXCEPT ![xyz] = Scale(@, a)]
           /\ y' = [y EXCEPT ![xyz] = Scale(@, a)]
           /\ z' = [z EXCEPT ![xyz] = Scale(@, a)]
           /\ coef' = [coef EXCEPT ![xyz] = a]
           /\ calls' = Append(calls, [kernel |-> k, vs |-> vs, vList |-> vList,
                                      nList |-> nList, at |-> xyz])
    /\ al_next' = al_next + 1
    /\ UNCHANGED <<vList, method_arg, method, nList, al_pc>>
    /\ UNCHANGED <<ov_vars, dti_vars>>

\* line 216: every index is done
alpha_return ==
    /\ al_pc = "loop"
    /\ ~(al_next < NU * NV)
    /\ al_pc' = "done"
    /\ UNCHANGED <<vList, method_arg, method, nList, x, y, z, coef, al_next, calls>>
    /\ UNCHANGED <<ov_vars, dti_vars>>

AlNext == alpha_begin \/ alpha_point \/ alpha_return

-----------------------------------------------------------------------------
(* Specifications: one call of one function each *)

InitOverlap == OvInit /\ DtiIdle /\ AlIdle

SpecOverlap == InitOverlap /\ [][OvNext]_vars

InitDTI == DtiInit /\ OvIdle /\ AlIdle

SpecDTI == InitDTI /\ [][DtiNext]_vars

InitAlpha == AlInit /\ OvIdle /\ DtiIdle

SpecAlpha == InitAlpha /\ [][AlNext]_vars

-----------------------------------------------------------------------------
(* Claims about overlap_volumes *)

\* the volume has at least one nonzero value
HasNonzero(v) == \E vox \in Voxels : \E c \in 1 .. v.chan : v.data[vox][c] # 0

\* the value of channel c of volume v at a voxel, as given by the caller
RawValue(v, vox, c) == v.data[vox][IF v.chan = 3 THEN c ELSE 1]

\* the volume's channel-sum at the voxel is nonzero
OpaqueAt(v, vox) == RawValue(v, vox, 1) + RawValue(v, vox, 2) + RawValue(v, vox, 3) # 0

\* the volume's own maximum
OwnMax(v) == SetMax({v.data[vox][c] : vox \in Voxels, c \in 1 .. v.chan})

\* the volume's value at the voxel divided by the volume's own maximum
SelfNormalised(v, vox) == [c \in Channels |-> Div(RawValue(v, vox, c), OwnMax(v))]

\* what the most foreground opaque layer of the call's list shows at the voxel
ForegroundPixel(vox) ==
    LET F == {i \in 1 .. Len(vol_list0) : OpaqueAt(vol_list0[i], vox)}
    IN  IF F = {} THEN [c \in Channels |-> Zero]
        ELSE SelfNormalised(vol_list0[SetMin(F)], vox)

C7_AllZeroRejected ==
    (\E i \in 1 .. Len(vol_list0) : ~HasNonzero(vol_list0[i])) =>
        /\ ov_pc # "done"
        /\ ov_pc = "loop" => \A vox \in Voxels : \A c \in Channels : ~IsNaN(back[vox][c])

\* steps the call still has to take at most: one per element left, and the
\* entry and the return
Remaining == Len(vol_list) + (IF ov_pc = "start" THEN 2 ELSE IF ov_pc = "loop" THEN 1 ELSE 0)

-----------------------------------------------------------------------------
(* Claims about tensor_to_DTI *)

\* the call is over: it returned or an exception left it
DtiOver == dti_pc \in {"done", "raised"}

IsZero(q) == q[1] = 0 /\ q[2] # 0

\* the two shapes the claims name: (x,y,z,6) and (x,y,z,1,6)
ClaimedRank4(a) == Rank(a) = 4 /\ a.shape[4] = 6

ClaimedRank5(a) == Rank(a) = 5 /\ a.shape[4] = 1 /\ a.shape[5] = 6

\* a rank-4 field with the six components on its first axis: (6,x,y,z)
ComponentsFirst(a) == Rank(a) = 4 /\ a.shape[1] = 6

\* the symmetric matrix with component comp[layout[r][c]] at row r, column c
Symmetric(layout, comp) ==
    [r \in 1 .. 3 |-> [c \in 1 .. 3 |-> comp[layout[r][c] + 1]]]

ClaimedLayout4 == <<<<0, 1, 2>>, <<1, 3, 4>>, <<2, 4, 5>>>>

ClaimedLayout5 == <<<<0, 1, 3>>, <<1, 2, 4>>, <<3, 4, 5>>>>

\* the four maps all have the given shape
MapsShaped(sh) == FA.shape = sh /\ AD.shape = sh /\ RD.shape = sh /\ MD.shape = sh

\* C2: whichever way the call ends, by a return or by an exception, the
\* divide/invalid setting is not left at 'ignore'.
C2_ScopedSuppression == DtiOver => errstate # "ignore"

\* C3 as stated: a call on a field of shape (x,y,z,6) or (x,y,z,1,6) returns,
\* the matrix of voxel (i,j,k) is made of t[i,j,k,0..5] in the layout
\* [[0,1,2],[1,3,4],[2,4,5]], resp. of t[i,j,k,0,0..5] in the layout
\* [[0,1,3],[1,2,4],[3,4,5]], and the maps have the shape (x,y,z).
C3_LayoutAsStated ==
    (DtiOver /\ (ClaimedRank4(t) \/ ClaimedRank5(t))) =>
        /\ dti_pc = "done"
        /\ MapsShaped(SubSeq(t.shape, 1, 3))
        /\ \A vox \in Indices(SubSeq(t.shape, 1, 3)) :
              MatrixAt(mt, vox) =
                 IF Rank(t) = 4
                 THEN Symmetric(ClaimedLayout4, [k \in 1 .. 6 |-> t.data[vox \o <<k - 1>>]])
                 ELSE Symmetric(ClaimedLayout5, [k \in 1 .. 6 |-> t.data[vox \o <<0, k - 1>>]])

\* C3, amended: a call on a rank-4 field of shape (6,x,y,z) returns, the
\* matrix of voxel (i,j,k) is made of t[0..5,i,j,k] in the layout
\* [[0,1,2],[1,3,4],[2,4,5]] and the maps have the shape (x,y,z) of the last
\* three axes; a call on a rank-5 field of shape (x,y,z,1,6) returns, the
\* matrix is made of t[i,j,k,0,0..5] in the layout [[0,1,3],[1,2,4],[3,4,5]]
\* and the maps have the shape (x,y,z) of the first three axes.
C3_Layout ==
    (DtiOver /\ (ComponentsFirst(t) \/ ClaimedRank5(t))) =>
        LET spatial == IF Rank(t) = 4 THEN SubSeq(t.shape, 2, 4) ELSE SubSeq(t.shape, 1, 3)
        IN  /\ dti_pc = "done"
            /\ MapsShaped(spatial)
            /\ \A vox \in Indices(spatial) :
                  MatrixAt(mt, vox) =
                     IF Rank(t) = 4
                     THEN Symmetric(ClaimedLayout4, [k \in 1 .. 6 |-> t.data[<<k - 1>> \o vox]])
                     ELSE Symmetric(ClaimedLayout5, [k \in 1 .. 6 |-> t.data[vox \o <<0, k - 1>>]])

\* a returned call on a field of two voxels whose matrices differ and are not
\* diagonal: components were placed off the diagonal
C3_Witness ==
    /\ dti_pc = "done"
    /\ ComponentsFirst(t) \/ ClaimedRank5(t)
    /\ \E v1 \in VoxelsOf(mt) : \E v2 \in VoxelsOf(mt) :
          /\ MatrixAt(mt, v1) # MatrixAt(mt, v2)
          /\ \E r \in 1 .. 3 : \E c \in 1 .. 3 : r # c /\ MatrixAt(mt, v1)[r][c] # 0

\* the matrix of the voxel is all zeros
ZeroTensorAt(vox) == \A r \in 1 .. 3 : \A c \in 1 .. 3 : MatrixAt(mt, vox)[r][c] = 0

\* C4: no returned map holds a NaN, and at a voxel whose tensor is all zeros
\* FA = AD = RD = MD = 0.
C4_ZeroTensorSafety ==
    dti_pc = "done" =>
        \A vox \in VoxelsOf(mt) :
            /\ ~IsNaN(FA.data[vox]) /\ ~IsNaN(AD.data[vox])
            /\ ~IsNaN(RD.data[vox]) /\ ~IsNaN(MD.data[vox])
            /\ ZeroTensorAt(vox) =>
                  /\ IsZero(FA.data[vox]) /\ IsZero(AD.data[vox])
                  /\ IsZero(RD.data[vox]) /\ IsZero(MD.data[vox])

\* a returned call on a field with an all-zero voxel next to one that is not
C4_Witness ==
    /\ dti_pc = "done"
    /\ \E vox \in VoxelsOf(mt) : ZeroTensorAt(vox)
    /\ \E vox \in VoxelsOf(mt) : ~ZeroTensorAt(vox)

\* the largest eigenvalue of a matrix
LargestEigenvalue(M) ==
    LET l == CHOOSE e \in Eig(M) : TRUE
    IN  SetMax({l[1], l[2], l[3]})

\* C5: once line 142 has run, whatever order the solver gave, the eigenvalues
\* of every voxel are in descending order, and they are when the maps are
\* computed; in the returned maps AD is the largest eigenvalue and
\* AD >= MD >= RD.
C5_EigenvalueOrder ==
    /\ dti_pc \in {"maps", "nan", "ret", "done"} =>
          \A vox \in VoxelsOf(mt) :
              val.data[vox][1] >= val.data[vox][2] /\ val.data[vox][2] >= val.data[vox][3]
    /\ dti_pc = "done" =>
          \A vox \in VoxelsOf(mt) :
              /\ AD.data[vox] = Num(LargestEigenvalue(MatrixAt(mt, vox)))
              /\ Leq(MD.data[vox], AD.data[vox])
              /\ Leq(RD.data[vox], MD.data[vox])

\* a returned call with a voxel of three different eigenvalues, one of them
\* negative: the solver had six orders to give them in
C5_Witness ==
    /\ dti_pc = "done"
    /\ \E vox \in VoxelsOf(mt) :
          /\ val.data[vox][1] > val.data[vox][2]
          /\ val.data[vox][2] > val.data[vox][3]
          /\ val.data[vox][3] < 0

\* C8: a call on a field whose shape is neither (x,y,z,6) nor (x,y,z,1,6)
\* ends in an error.
C8_MalformedFailsFast ==
    (DtiOver /\ ~(ClaimedRank4(t) \/ ClaimedRank5(t))) => dti_pc = "raised"

-----------------------------------------------------------------------------
(* Claims about compute_alpha_surface *)

\* the unit-sphere direction of a grid index, as lines 195-197 make it
UnitDirection(g) == <<X0[g], Y0[g], Z0[g]>>

C9_PerPoint ==
    /\ \A i \in 1 .. Len(calls) :
          /\ calls[i].at = NdIndex(i - 1)
          /\ calls[i].vs = UnitDirection(calls[i].at)
          /\ calls[i].vList = vList
          /\ calls[i].nList = [k \in 1 .. Len(vList) |-> 0]
    /\ al_pc = "done" =>
          /\ Len(calls) = Cardinality(GridIndices)
          /\ \A g \in GridIndices :
                \E i \in 1 .. Len(calls) :
                    /\ calls[i].at = g
                    /\ coef[g] = Kernel(calls[i].kernel, UnitDirection(g), vList,
                                        [k \in 1 .. Len(vList) |-> 0])[1]
                    /\ x[g] = X0[g] * (coef[g] + 1)
                    /\ y[g] = Y0[g] * (coef[g] + 1)
                    /\ z[g] = Z0[g] * (coef[g] + 1)

\* a returned call where some grid point was moved off the unit sphere
C9_Witness ==
    /\ al_pc = "done"
    /\ Len(calls) = NU * NV
    /\ \E g \in GridIndices : coef[g] # 0 /\ x[g] # X0[g] /\ X0[g] # 0

====
